---- MODULE Spec2Model ----
(***************************************************************************)
(* otel-ui backend: the OTLP ingestion and broadcast pipeline.             *)
(*                                                                         *)
(* AppState (backend/src/state.rs) is the shared store: nodes, edges,      *)
(* in_flight, the two span indexes, the two counters, last_topo_ms and the *)
(* broadcast hub.  OtlpTraceReceiver::export (backend/src/otlp.rs) runs    *)
(* once per gRPC call, several calls in parallel on the tokio thread pool; *)
(* the eviction task (backend/src/main.rs) runs cleanup_stale_traces.      *)
(*                                                                         *)
(* Granularity: every access to a DashMap, to an atomic or to the hub is   *)
(* one step (each is linearizable on its own, nothing spans two of them);  *)
(* computation on locals is folded into the step that follows it.          *)
(*                                                                         *)
(* Option<T> is a set: {} is None and {v} is Some(v).                      *)
(* Timestamps are carried in milliseconds (1 unit = 1_000_000 ns), so the  *)
(* division by 1_000_000.0 of the source is exact on the values used.      *)
(* SpanEvent keeps the fields that the store reads (ids, parent, name,     *)
(* target, start, end); status, service_name, attributes and duration_ms   *)
(* are copied through by the source and left out here, and so is Node's    *)
(* label.                                                                  *)
(***************************************************************************)
EXTENDS Integers, Sequences, FiniteSets, TLC

\* ---------------------------------------------------------------- bounds
\* export calls started over a run
MaxExports == 2
\* spans in one export request, when two calls may run at a time
MaxBatch == 1
\* spans in one export request, when the calls come one at a time
MaxBatchSerial == 2
\* export calls started over a run of the throttle alone
MaxTopoExports == 3
\* advances of the wall clock over a run
MaxTicks == 2
\* eviction sweeps over a run
MaxSweeps == 1
\* eviction periods the clock advances through where the ticker runs for ever
MaxIntervals == 3
\* the slots of the hub's ring (4096 at state.rs:130), scaled down
HubCapacity == 2
\* export calls beside two sessions
MaxPairExports == 1
\* stats heartbeats per session
MaxStats == 1
\* inbound frames per session, the closing one apart
MaxInbound == 1

\* ------------------------------------------------------ program constants
\* state.rs:238  now_ms.saturating_sub(last) >= 500
TopoThrottleMs == 500
\* main.rs:55  cleanup_stale_traces(Duration::from_secs(60))
MaxAgeMs == 60000
\* main.rs:52  tokio::time::interval(Duration::from_secs(30))
IntervalMs == 30000
\* the wall clock (ms since the epoch) when the process starts
StartMs == 200000
\* one advance of the clock
TickMs == TopoThrottleMs \div 2

Exporters == {"e1", "e2"}
Evictor == "ev"
Sessions == {"w1", "w2"}
Procs == Exporters \cup {Evictor}

None == {}
Some(v) == {v}
IsSome(o) == o # {}
Unwrap(o) == CHOOSE v \in o : TRUE

\* u64::saturating_sub
SatSub(a, b) == IF a >= b THEN a - b ELSE 0

\* -------------------------------------------------------------- inputs
\* The decoded spans a producer may export, each span id in one request at
\* most (span ids are unique within the process).
\*   A  root of T1                      (S1: parent of B)
\*   B  child of A, other node          (S1: edge Net::handle => Net::recv)
\*   C  child of D, same node as D      (S2: self-edge)
\*   D  child of Z, which never arrives (S3, S5: orphan, 120 s old)
\*   E  root of T2, started after C and D, its end before its start
SpanIds == {"A", "B", "C", "D"}
\* the spans of T2: a root that may arrive while the sweep evicts its trace
RaceIds == {"C", "D", "E"}
TraceIds == {"T1", "T2"}

SpanEvent(t, s, p, tg, n, st, en) ==
  [trace_id |-> t, span_id |-> s, parent_span_id |-> p, target |-> tg,
   name |-> n, start_time_unix_nano |-> st, end_time_unix_nano |-> en]

Catalogue ==
  [s \in SpanIds \cup RaceIds |->
     CASE s = "A" -> SpanEvent("T1", "A", None, "Net", "handle", StartMs + 1, StartMs + 6)
       [] s = "B" -> SpanEvent("T1", "B", Some("A"), "Net", "recv", StartMs + 2, StartMs + 5)
       [] s = "C" -> SpanEvent("T2", "C", Some("D"), "X", "f", StartMs + 3, StartMs + 4)
       [] s = "D" -> SpanEvent("T2", "D", Some("Z"), "X", "f",
                               StartMs - 2 * MaxAgeMs, StartMs - 2 * MaxAgeMs + 1)
       [] s = "E" -> SpanEvent("T2", "E", None, "X", "g", StartMs + 4, StartMs + 2)]

RECURSIVE SeqsOver(_, _)
\* the sequences of distinct elements of S, of length at most n
SeqsOver(S, n) ==
  IF n = 0 THEN {<< >>}
  ELSE {<< >>} \cup UNION {{<<x>> \o q : q \in SeqsOver(S \ {x}, n - 1)} : x \in S}

Range(q) == {q[k] : k \in 1..Len(q)}


\* ---------------------------------------------------------------- maps
\* DashMap / HashMap as a function on the keys it holds
EmptyMap == [k \in {} |-> TRUE]
Put(m, k, v) == [x \in DOMAIN m \cup {k} |-> IF x = k THEN v ELSE m[x]]
Del(m, k) == [x \in DOMAIN m \ {k} |-> m[x]]
Get(m, k) == IF k \in DOMAIN m THEN Some(m[k]) ELSE None

\* --------------------------------------------------------------- state
VARIABLES
  \* AppState (state.rs:111-126)
  nodes, edges, in_flight, total_traces, total_spans,
  span_name_index, span_start_index, last_topo_ms,
  \* every message handed to broadcast.send, in the order of the sends
  hub,
  \* SystemTime::now(), in ms
  now,
  \* where each task stands: the export calls' slots and the eviction task
  pc,
  \* the locals of an export call, per slot
  ex,
  \* the locals of the finalize loop and of finalize_trace, per task
  fin,
  \* the locals of cleanup_stale_traces
  ev,
  \* history: the export calls started, with the request and the steps of each
  calls,
  \* history: span ids whose ingest_span has returned / that a finalize removed
  ingested, removed,
  \* history: the trace id of each finalize_trace that removed an in_flight
  \* entry, in the order of the removals
  finalized,
  \* history: the clock value read by each maybe_broadcast_topology that
  \* emitted, and whether two such calls ever overlapped
  topo_log, topo_overlap,
  \* the clock advances and the sweeps so far
  ticks, sweeps,
  \* the WebSocket sessions (ws.rs:61-117): where each stands, with its locals
  \* and the first and the latest frame its client has received
  ws,
  \* whether the connection to each session's client still takes writes
  sock

store == <<nodes, edges, in_flight, total_traces, total_spans,
           span_name_index, span_start_index, last_topo_ms>>
history == <<ingested, removed, finalized, topo_log, topo_overlap>>
sessions == <<ws, sock>>
vars == <<store, hub, now, pc, ex, fin, ev, calls, history, ticks, sweeps,
          sessions>>

ExIdle ==
  [call |-> 0, batch |-> << >>, i |-> 0, payloads |-> << >>,
   from_node |-> None, edge_latency_ms |-> None, now_ms |-> 0, last |-> 0,
   snap_nodes |-> {}]

\* trace_ids: root_trace_ids of export (otlp.rs:132), stale of
\* cleanup_stale_traces (state.rs:295); the rest are finalize_trace's locals
FinIdle ==
  [trace_ids |-> << >>, spans |-> EmptyMap, todo |-> {}, cur |-> None]

EvIdle == [cutoff_ns |-> 0, scan |-> {}]

\* a session not yet connected.  cursor: the messages of the hub its receiver
\* is past; first, last: the first and the latest frame its client has
\* received; snap_nodes, total_traces: locals of the snapshot functions;
\* lagged, stats, inbound: how many lag notifications, heartbeats and inbound
\* frames it has had; why: what ended it
WsOff ==
  [pc |-> "off", cursor |-> 0, first |-> None, last |-> None,
   snap_nodes |-> {}, total_traces |-> 0, lagged |-> 0, stats |-> 0,
   inbound |-> 0, why |-> ""]

\* AppState::new (state.rs:129-142); no call in progress
Init ==
  /\ nodes = EmptyMap /\ edges = EmptyMap /\ in_flight = EmptyMap
  /\ total_traces = 0 /\ total_spans = 0
  /\ span_name_index = EmptyMap /\ span_start_index = EmptyMap
  /\ last_topo_ms = 0
  /\ hub = << >>
  /\ now = StartMs
  /\ pc = [p \in Procs |-> "idle"]
  /\ ex = [e \in Exporters |-> ExIdle]
  /\ fin = [p \in Procs |-> FinIdle]
  /\ ev = EvIdle
  /\ calls = << >>
  /\ ingested = {} /\ removed = {} /\ finalized = << >>
  /\ topo_log = << >> /\ topo_overlap = FALSE
  /\ ticks = 0 /\ sweeps = 0
  /\ ws = [s \in Sessions |-> WsOff]
  /\ sock = [s \in Sessions |-> TRUE]

\* ------------------------------------------------------------ helpers
\* state.rs:164 and otlp.rs:122  format!("{}::{}", target, name)
node_id(span) == span.target \o "::" \o span.name

\* state.rs:190  format!("{}=>{}", from, node_id)
edge_key(from, to) == from \o "=>" \o to

\* faulty variant: a new node starts with span_count 0
UpsertNode_FromZero(ns, span) ==
  LET id == span.target \o "::" \o span.name IN
  IF id \in DOMAIN ns
    THEN [ns EXCEPT ![id].span_count = @ + 1]
    ELSE Put(ns, id, [id |-> id, category |-> span.target, span_count |-> 0])

\* faulty variant: the upsert starts from an empty node store
UpsertNode_Fresh(ns, span) ==
  LET id == span.target \o "::" \o span.name IN
  Put(EmptyMap, id,
      [id |-> id, category |-> span.target,
       span_count |-> IF id \in DOMAIN ns THEN ns[id].span_count + 1 ELSE 1])

\* faulty variant: or_insert_with alone, a node that exists is not counted up
UpsertNode_NoModify(ns, span) ==
  LET id == span.target \o "::" \o span.name IN
  IF id \in DOMAIN ns
    THEN ns
    ELSE Put(ns, id, [id |-> id, category |-> span.target, span_count |-> 1])

\* state.rs:166-174  entry(node_id).and_modify(span_count += 1).or_insert_with(..)
UpsertNode(ns, span) ==
  LET id == node_id(span) IN
  IF id \in DOMAIN ns
    THEN [ns EXCEPT ![id].span_count = @ + 1]
    ELSE Put(ns, id, [id |-> id, category |-> span.target, span_count |-> 1])

\* faulty variant: a parent that is not indexed is taken to be the target
LookupFrom_Default(span, name_index) ==
  IF span.parent_span_id = {} THEN {}
  ELSE IF Unwrap(span.parent_span_id) \in DOMAIN name_index
    THEN {name_index[Unwrap(span.parent_span_id)]}
    ELSE {span.target}

\* state.rs:177-179  parent_span_id.and_then(|pid| span_name_index.get(pid))
LookupFrom(span, name_index) ==
  IF IsSome(span.parent_span_id)
    THEN Get(name_index, Unwrap(span.parent_span_id)) ELSE None

\* state.rs:182-186  child.start - parent.start, saturating
LookupLatency(span, start_index) ==
  IF IsSome(span.parent_span_id)
       /\ Unwrap(span.parent_span_id) \in DOMAIN start_index
    THEN Some(SatSub(span.start_time_unix_nano,
                     start_index[Unwrap(span.parent_span_id)]))
    ELSE None

\* faulty variant: the test from != node_id is dropped
RecordsEdge_NoSelfCheck(from_node, id) == from_node # {}

\* state.rs:188-189  if let Some(from) = from_node { if from != &node_id {
RecordsEdge(from_node, id) == IsSome(from_node) /\ Unwrap(from_node) # id

\* faulty variant: a new edge starts with flow_count 0
UpsertEdge_FromZero(es, from, to) ==
  LET k == from \o "=>" \o to IN
  IF k \in DOMAIN es
    THEN [es EXCEPT ![k].flow_count = @ + 1]
    ELSE Put(es, k, [source |-> from, target |-> to, flow_count |-> 0])

\* state.rs:191-198  entry(edge_key).and_modify(flow_count += 1).or_insert_with(..)
UpsertEdge(es, from, to) ==
  LET k == edge_key(from, to) IN
  IF k \in DOMAIN es
    THEN [es EXCEPT ![k].flow_count = @ + 1]
    ELSE Put(es, k, [source |-> from, target |-> to, flow_count |-> 1])

\* state.rs:203-217  the wire payload
SpanArrivedPayload(span, from_node, edge_latency_ms) ==
  [trace_id |-> span.trace_id, span_id |-> span.span_id,
   parent_span_id |-> span.parent_span_id, name |-> span.name,
   target |-> span.target,
   start_time_unix_nano |-> span.start_time_unix_nano,
   end_time_unix_nano |-> span.end_time_unix_nano,
   from_node |-> from_node, to_node |-> node_id(span),
   edge_latency_ms |-> edge_latency_ms]

\* faulty variant: get_mut in place of entry().or_insert_with(), so the
\* first span of a trace is dropped
InsertInFlight_GetMut(inf, span) ==
  IF span.trace_id \in DOMAIN inf
    THEN Put(inf, span.trace_id, Put(inf[span.trace_id], span.span_id, span))
    ELSE inf

\* faulty variant: insert(trace_id, new map) in place of entry(), so the
\* spans the trace held are dropped
InsertInFlight_Replace(inf, span) ==
  Put(inf, span.trace_id, Put(EmptyMap, span.span_id, span))

\* state.rs:221-225  in_flight.entry(trace_id).or_insert_with(HashMap::new)
\*                   .insert(span_id, span), under the entry's shard lock
InsertInFlight(inf, span) ==
  LET old == IF span.trace_id \in DOMAIN inf THEN inf[span.trace_id] ELSE EmptyMap
  IN Put(inf, span.trace_id, Put(old, span.span_id, span))

\* faulty variant: the entry is read and left in the map
RemoveTrace_Keep(inf, trace_id) == inf

\* state.rs:250  in_flight.remove(trace_id)
RemoveTrace(inf, trace_id) == Del(inf, trace_id)

\* faulty variant: the indexes are not pruned
RemoveSpanIndex_Keep(index, span_id) == index

\* faulty variant: the whole index is cleared
RemoveSpanIndex_Clear(index, span_id) == EmptyMap

\* state.rs:256-257  span_start_index.remove(id), span_name_index.remove(id)
RemoveSpanIndex(index, span_id) == Del(index, span_id)

\* faulty variant: the throttle test is dropped
ThrottleOpen_NoGate(now_ms, last) == TRUE

\* state.rs:238  now_ms.saturating_sub(last) >= 500
ThrottleOpen(now_ms, last) == SatSub(now_ms, last) >= TopoThrottleMs

\* faulty variant: the increment is lost
fetch_add_Lost(counter, v) == counter

\* state.rs:161, 251  AtomicU64::fetch_add(v): the new value of the counter
fetch_add(counter, v) == counter + v

\* otlp.rs:134-136  a span with no parent is a root: its trace is finalised
RootsWith(roots, span) ==
  IF span.parent_span_id = None THEN Append(roots, span.trace_id) ELSE roots

\* faulty variant: the batch is never broadcast
AfterIngestLoop_Skip(payloads) == "topo_now"

\* otlp.rs:141  if !payloads.is_empty() { broadcast } ; then the topology call
AfterIngestLoop(payloads) ==
  IF payloads # << >> THEN "batch_send" ELSE "topo_now"

\* faulty variant: spans are ingested as they are decoded, with no pre-index
\* pass
AfterDecode_Streaming(batch) ==
  IF batch # << >> THEN "ing_total" ELSE "topo_now"

\* otlp.rs:119, 133  the pre-index pass over the batch comes first, the
\* ingest loop after it
AfterDecode(batch) ==
  IF batch # << >> THEN "pre_name" ELSE AfterIngestLoop(<< >>)

\* otlp.rs:154-158 and state.rs:311-315  the next trace id of the loop, or return
AfterFinalize(trace_ids) ==
  IF trace_ids # << >> THEN "fin_remove" ELSE "idle"

\* the step of a call, appended to the call's history
Log(p, tag) ==
  IF p \in Exporters
    THEN [calls EXCEPT ![ex[p].call].events = Append(@, tag)] ELSE calls

Sent == UNION {{s.span_id : s \in Range(calls[c].batch)} : c \in 1..Len(calls)}


\* ------------------------------------------------- export (otlp.rs:24-161)
\* The span the ingest loop or the pre-index loop of slot e stands at.
Cur(e) == ex[e].batch[ex[e].i]

\* otlp.rs:28-114  a call arrives and its request is decoded into the batch.
\* A new call takes the lowest free slot; its spans come from pool.
export_begin(e, max_calls, max_batch, pool) ==
  /\ pc[e] = "idle"
  /\ Len(calls) < max_calls
  /\ \A o \in Exporters : (o # e /\ pc[o] = "idle") => e = "e1"
  /\ \E ids \in SeqsOver(pool \ Sent, max_batch) :
       LET batch == [k \in 1..Len(ids) |-> Catalogue[ids[k]]] IN
       /\ calls' = Append(calls, [batch |-> batch, events |-> << >>])
       /\ ex' = [ex EXCEPT ![e] = [ExIdle EXCEPT !.call = Len(calls) + 1,
                                                  !.batch = batch, !.i = 1]]
       /\ pc' = [pc EXCEPT ![e] = AfterDecode(batch)]
  /\ UNCHANGED <<sessions, store, hub, now, fin, ev, history, ticks, sweeps>>

\* otlp.rs:122  span_name_index.insert(span_id, "target::name")
export_preindex_name(e) ==
  /\ pc[e] = "pre_name"
  /\ span_name_index' = Put(span_name_index, Cur(e).span_id, node_id(Cur(e)))
  /\ pc' = [pc EXCEPT ![e] = "pre_start"]
  /\ calls' = Log(e, <<"index_name", Cur(e).span_id>>)
  /\ UNCHANGED <<sessions, nodes, edges, in_flight, total_traces, total_spans,
                 span_start_index, last_topo_ms, hub, now, ex, fin, ev,
                 history, ticks, sweeps>>

\* otlp.rs:123  span_start_index.insert(span_id, start); then the next span
\* of the batch, or the ingest loop from the first span
export_preindex_start(e) ==
  /\ pc[e] = "pre_start"
  /\ span_start_index' =
       Put(span_start_index, Cur(e).span_id, Cur(e).start_time_unix_nano)
  /\ IF ex[e].i < Len(ex[e].batch)
       THEN /\ ex' = [ex EXCEPT ![e].i = @ + 1]
            /\ pc' = [pc EXCEPT ![e] = "pre_name"]
       ELSE /\ ex' = [ex EXCEPT ![e].i = 1]
            /\ pc' = [pc EXCEPT ![e] = "ing_total"]
  /\ calls' = Log(e, <<"index_start", Cur(e).span_id>>)
  /\ UNCHANGED <<sessions, nodes, edges, in_flight, total_traces, total_spans,
                 span_name_index, last_topo_ms, hub, now, fin, ev,
                 history, ticks, sweeps>>

\* otlp.rs:133-137 and state.rs:161  the loop notes a root's trace id and
\* calls ingest_span, which first does total_spans.fetch_add(1)
ingest_span_total(e) ==
  /\ pc[e] = "ing_total"
  /\ total_spans' = fetch_add(total_spans, 1)
  /\ fin' = [fin EXCEPT ![e].trace_ids = RootsWith(@, Cur(e))]
  /\ pc' = [pc EXCEPT ![e] = "ing_node"]
  /\ calls' = Log(e, <<"ingest", Cur(e).span_id>>)
  /\ UNCHANGED <<sessions, nodes, edges, in_flight, total_traces, span_name_index,
                 span_start_index, last_topo_ms, hub, now, ex, ev,
                 history, ticks, sweeps>>

\* state.rs:164-174  the node upsert
ingest_span_node(e) ==
  /\ pc[e] = "ing_node"
  /\ nodes' = UpsertNode(nodes, Cur(e))
  /\ pc' = [pc EXCEPT ![e] = "ing_from"]
  /\ UNCHANGED <<sessions, edges, in_flight, total_traces, total_spans, span_name_index,
                 span_start_index, last_topo_ms, hub, now, ex, fin, ev, calls,
                 history, ticks, sweeps>>

\* state.rs:177-179  from_node, read from span_name_index
ingest_span_from(e) ==
  /\ pc[e] = "ing_from"
  /\ ex' = [ex EXCEPT ![e].from_node = LookupFrom(Cur(e), span_name_index)]
  /\ pc' = [pc EXCEPT ![e] = "ing_latency"]
  /\ UNCHANGED <<sessions, store, hub, now, fin, ev, calls, history, ticks, sweeps>>

\* state.rs:182-189  edge_latency_ms, read from span_start_index; then the
\* edge upsert when from_node is some other node
ingest_span_latency(e) ==
  /\ pc[e] = "ing_latency"
  /\ ex' = [ex EXCEPT ![e].edge_latency_ms = LookupLatency(Cur(e), span_start_index)]
  /\ pc' = [pc EXCEPT ![e] = IF RecordsEdge(ex[e].from_node, node_id(Cur(e)))
                               THEN "ing_edge" ELSE "ing_insert"]
  /\ UNCHANGED <<sessions, store, hub, now, fin, ev, calls, history, ticks, sweeps>>

\* state.rs:190-198  the edge upsert
ingest_span_edge(e) ==
  /\ pc[e] = "ing_edge"
  /\ edges' = UpsertEdge(edges, Unwrap(ex[e].from_node), node_id(Cur(e)))
  /\ pc' = [pc EXCEPT ![e] = "ing_insert"]
  /\ UNCHANGED <<sessions, nodes, in_flight, total_traces, total_spans, span_name_index,
                 span_start_index, last_topo_ms, hub, now, ex, fin, ev, calls,
                 history, ticks, sweeps>>

\* state.rs:203-228 and otlp.rs:137  the span goes into in_flight, the payload
\* is returned and pushed; then the next span, or the end of the loop
ingest_span_insert(e) ==
  LET pl == SpanArrivedPayload(Cur(e), ex[e].from_node, ex[e].edge_latency_ms)
      pls == Append(ex[e].payloads, pl)
      more == ex[e].i < Len(ex[e].batch)
  IN
  /\ pc[e] = "ing_insert"
  /\ in_flight' = InsertInFlight(in_flight, Cur(e))
  /\ ex' = [ex EXCEPT ![e].payloads = pls,
                      ![e].from_node = None,
                      ![e].edge_latency_ms = None,
                      ![e].i = IF more THEN @ + 1 ELSE @]
  /\ pc' = [pc EXCEPT ![e] = IF more THEN "ing_total" ELSE AfterIngestLoop(pls)]
  /\ ingested' = ingested \cup {Cur(e).span_id}
  /\ calls' = Log(e, <<"ingested", Cur(e).span_id>>)
  /\ UNCHANGED <<sessions, nodes, edges, total_traces, total_spans, span_name_index,
                 span_start_index, last_topo_ms, hub, now, fin, ev,
                 removed, finalized, topo_log, topo_overlap, ticks, sweeps>>

\* otlp.rs:141-146  one SpansBatch message for the whole batch
export_broadcast(e) ==
  /\ pc[e] = "batch_send"
  /\ hub' = Append(hub, [type |-> "spans_batch", spans |-> ex[e].payloads,
                         call |-> ex[e].call])
  /\ pc' = [pc EXCEPT ![e] = "topo_now"]
  /\ calls' = Log(e, <<"spans_batch", "">>)
  /\ UNCHANGED <<sessions, store, now, ex, fin, ev, history, ticks, sweeps>>


\* --------------------------- maybe_broadcast_topology (state.rs:232-247)
\* Between its clock read and its store (or its decision not to emit) a call
\* stands at "topo_load" or "topo_store".
InThrottle(e) == pc[e] \in {"topo_load", "topo_store"}

\* The locals of slot e after a step: those of an idle slot once the call
\* has returned.
ExAfter(e, next, rec) == IF next = "idle" THEN ExIdle ELSE rec
FinAfter(next, rec) == IF next = "idle" THEN FinIdle ELSE rec

\* state.rs:233-236  now_ms = SystemTime::now()
topo_now(e) ==
  /\ pc[e] = "topo_now"
  /\ ex' = [ex EXCEPT ![e].now_ms = now]
  /\ pc' = [pc EXCEPT ![e] = "topo_load"]
  /\ topo_overlap' = (topo_overlap \/ \E o \in Exporters \ {e} : InThrottle(o))
  /\ calls' = Log(e, <<"topology", "">>)
  /\ UNCHANGED <<sessions, store, hub, now, fin, ev, ingested, removed, finalized,
                 topo_log, ticks, sweeps>>

\* state.rs:237-238  last = last_topo_ms.load(); the throttle test.  When it
\* fails the call returns and export goes on to its finalize loop.
topo_load(e) ==
  LET open == ThrottleOpen(ex[e].now_ms, last_topo_ms)
      next == IF open THEN "topo_store" ELSE AfterFinalize(fin[e].trace_ids)
  IN
  /\ pc[e] = "topo_load"
  /\ ex' = [ex EXCEPT ![e] = ExAfter(e, next, [@ EXCEPT !.last = last_topo_ms])]
  /\ fin' = [fin EXCEPT ![e] = FinAfter(next, @)]
  /\ pc' = [pc EXCEPT ![e] = next]
  /\ UNCHANGED <<sessions, store, hub, now, ev, calls, history, ticks, sweeps>>

\* state.rs:239  last_topo_ms.store(now_ms)
topo_store(e) ==
  /\ pc[e] = "topo_store"
  /\ last_topo_ms' = ex[e].now_ms
  /\ pc' = [pc EXCEPT ![e] = "topo_nodes"]
  /\ UNCHANGED <<sessions, nodes, edges, in_flight, total_traces, total_spans,
                 span_name_index, span_start_index, hub, now, ex, fin, ev,
                 calls, history, ticks, sweeps>>

\* state.rs:240  the nodes are collected (one pass over the map)
topo_nodes(e) ==
  /\ pc[e] = "topo_nodes"
  /\ ex' = [ex EXCEPT ![e].snap_nodes = {nodes[k] : k \in DOMAIN nodes}]
  /\ pc' = [pc EXCEPT ![e] = "topo_send"]
  /\ UNCHANGED <<sessions, store, hub, now, fin, ev, calls, history, ticks, sweeps>>

\* state.rs:241-245  the edges are collected and TopologyUpdated is sent;
\* export goes on to its finalize loop
topo_send(e) ==
  LET next == AfterFinalize(fin[e].trace_ids) IN
  /\ pc[e] = "topo_send"
  /\ hub' = Append(hub, [type |-> "topology_updated",
                         nodes |-> ex[e].snap_nodes,
                         edges |-> {edges[k] : k \in DOMAIN edges},
                         call |-> ex[e].call])
  /\ topo_log' = Append(topo_log, ex[e].now_ms)
  /\ ex' = [ex EXCEPT ![e] = ExAfter(e, next, [@ EXCEPT !.snap_nodes = {}])]
  /\ fin' = [fin EXCEPT ![e] = FinAfter(next, @)]
  /\ pc' = [pc EXCEPT ![e] = next]
  /\ calls' = Log(e, <<"topology_updated", "">>)
  /\ UNCHANGED <<sessions, store, now, ev, ingested, removed, finalized, topo_overlap,
                 ticks, sweeps>>

\* ------------------------------------- finalize_trace (state.rs:249-282)
\* The trace id the finalize loop of task p stands at.
FinTrace(p) == Head(fin[p].trace_ids)

\* otlp.rs:154-156 / state.rs:311-314 and state.rs:250  the loop calls
\* finalize_trace, which does in_flight.remove(trace_id); with no entry it
\* returns at once
finalize_trace_remove(p) ==
  LET t == FinTrace(p)
      hit == t \in DOMAIN in_flight
      rest == Tail(fin[p].trace_ids)
      next == IF hit THEN "fin_count" ELSE AfterFinalize(rest)
  IN
  /\ pc[p] = "fin_remove"
  /\ in_flight' = IF hit THEN RemoveTrace(in_flight, t) ELSE in_flight
  /\ fin' = [fin EXCEPT ![p] =
               IF hit THEN [@ EXCEPT !.spans = in_flight[t],
                                     !.todo = DOMAIN in_flight[t]]
               ELSE FinAfter(next, [@ EXCEPT !.trace_ids = rest])]
  /\ pc' = [pc EXCEPT ![p] = next]
  /\ ex' = IF p \in Exporters THEN [ex EXCEPT ![p] = ExAfter(p, next, @)] ELSE ex
  /\ removed' = IF hit THEN removed \cup DOMAIN in_flight[t] ELSE removed
  /\ finalized' = IF hit THEN Append(finalized, t) ELSE finalized
  /\ calls' = Log(p, <<"finalize", t>>)
  /\ UNCHANGED <<sessions, nodes, edges, total_traces, total_spans, span_name_index,
                 span_start_index, last_topo_ms, hub, now, ev, ingested,
                 topo_log, topo_overlap, ticks, sweeps>>

\* state.rs:251-253  total_traces.fetch_add(1); the removed map's values
finalize_trace_count(p) ==
  /\ pc[p] = "fin_count"
  /\ total_traces' = fetch_add(total_traces, 1)
  /\ pc' = [pc EXCEPT ![p] = IF fin[p].todo = {} THEN "fin_send" ELSE "fin_start"]
  /\ UNCHANGED <<sessions, nodes, edges, in_flight, total_spans, span_name_index,
                 span_start_index, last_topo_ms, hub, now, ex, fin, ev, calls,
                 history, ticks, sweeps>>

\* state.rs:255-256  span_start_index.remove(span_id), for the next span of
\* the removed map (a HashMap: in any order)
finalize_trace_prune_start(p) ==
  /\ pc[p] = "fin_start"
  /\ \E s \in fin[p].todo :
       /\ span_start_index' = RemoveSpanIndex(span_start_index, s)
       /\ fin' = [fin EXCEPT ![p].cur = Some(s)]
  /\ pc' = [pc EXCEPT ![p] = "fin_name"]
  /\ UNCHANGED <<sessions, nodes, edges, in_flight, total_traces, total_spans,
                 span_name_index, last_topo_ms, hub, now, ex, ev, calls,
                 history, ticks, sweeps>>

\* state.rs:257  span_name_index.remove(span_id)
finalize_trace_prune_name(p) ==
  LET s == Unwrap(fin[p].cur)
      left == fin[p].todo \ {s}
  IN
  /\ pc[p] = "fin_name"
  /\ span_name_index' = RemoveSpanIndex(span_name_index, s)
  /\ fin' = [fin EXCEPT ![p].cur = None, ![p].todo = left]
  /\ pc' = [pc EXCEPT ![p] = IF left = {} THEN "fin_send" ELSE "fin_start"]
  /\ UNCHANGED <<sessions, nodes, edges, in_flight, total_traces, total_spans,
                 span_start_index, last_topo_ms, hub, now, ex, ev, calls,
                 history, ticks, sweeps>>

\* faulty variant: the spans are left in the HashMap's order
SortedByStart_Unsorted(m) ==
  {q \in SeqsOver({m[k] : k \in DOMAIN m}, Cardinality(DOMAIN m)) :
     Len(q) = Cardinality(DOMAIN m)}

\* state.rs:259  sort_by_key(start_time_unix_nano) of the values of a HashMap:
\* they come in any order and the sort is stable, so spans with equal starts
\* may end in either order
SortedByStart(m) ==
  {q \in SeqsOver({m[k] : k \in DOMAIN m}, Cardinality(DOMAIN m)) :
     /\ Len(q) = Cardinality(DOMAIN m)
     /\ \A a, b \in 1..Len(q) :
          a < b => q[a].start_time_unix_nano <= q[b].start_time_unix_nano}

MaxOf(S) == IF S = {} THEN 0 ELSE CHOOSE x \in S : \A y \in S : y <= x

\* state.rs:264-268  the name of the first span with no parent, else ""
RootSpanName(spans) ==
  LET roots == {k \in 1..Len(spans) : spans[k].parent_span_id = None} IN
  IF roots = {} THEN ""
  ELSE spans[CHOOSE k \in roots : \A j \in roots : k <= j].name

\* state.rs:261-276  the TraceComplete built from the sorted spans
TraceComplete(trace_id, spans) ==
  LET started_at == IF spans = << >> THEN 0 ELSE spans[1].start_time_unix_nano
      ended_at == MaxOf({spans[k].end_time_unix_nano : k \in 1..Len(spans)})
  IN [trace_id |-> trace_id, spans |-> spans,
      root_span_name |-> RootSpanName(spans),
      duration_ms |-> SatSub(ended_at, started_at),
      started_at |-> started_at]

\* state.rs:259-280  the spans are sorted and TraceCompleted is sent; the
\* loop goes on to its next trace id, or the caller returns
finalize_trace_send(p) ==
  LET rest == Tail(fin[p].trace_ids)
      next == AfterFinalize(rest)
  IN
  /\ pc[p] = "fin_send"
  /\ \E spans \in SortedByStart(fin[p].spans) :
       hub' = Append(hub, [type |-> "trace_completed",
                           trace |-> TraceComplete(FinTrace(p), spans),
                           call |-> IF p \in Exporters THEN ex[p].call ELSE 0])
  /\ fin' = [fin EXCEPT ![p] = FinAfter(next, [FinIdle EXCEPT !.trace_ids = rest])]
  /\ pc' = [pc EXCEPT ![p] = next]
  /\ ex' = IF p \in Exporters THEN [ex EXCEPT ![p] = ExAfter(p, next, @)] ELSE ex
  /\ calls' = Log(p, <<"trace_completed", FinTrace(p)>>)
  /\ UNCHANGED <<sessions, store, now, ev, history, ticks, sweeps>>

\* ------------------------------- cleanup_stale_traces (state.rs:288-315)
\* main.rs:52-55 and state.rs:289-293  the ticker fires; cutoff = now - max_age.
\* The pass over in_flight visits its entries one at a time.
\* A counted sweep is one of the MaxSweeps sweeps of a bounded run.
cleanup_begin(counted) ==
  /\ pc[Evictor] = "idle"
  /\ counted => sweeps < MaxSweeps
  /\ sweeps' = IF counted THEN sweeps + 1 ELSE sweeps
  /\ ev' = [cutoff_ns |-> SatSub(now, MaxAgeMs), scan |-> TraceIds]
  /\ pc' = [pc EXCEPT ![Evictor] = "ev_scan"]
  /\ UNCHANGED <<sessions, store, hub, now, ex, fin, calls, history, ticks>>

\* faulty variant: no trace is ever found stale
StaleVerdicts_Never(m, cutoff_ns) == {FALSE}

\* state.rs:301-306  values().next() of a HashMap is any one of its spans;
\* an empty map is stale
StaleVerdicts(m, cutoff_ns) ==
  IF DOMAIN m = {} THEN {TRUE}
  ELSE {m[s].start_time_unix_nano < cutoff_ns : s \in DOMAIN m}

\* state.rs:295-309  one entry of the pass: the filter, and the key collected
\* into stale; after the last one, the loop over stale
cleanup_scan ==
  /\ pc[Evictor] = "ev_scan"
  /\ \E t \in ev.scan :
       \E stale_t \in (IF t \in DOMAIN in_flight
                        THEN StaleVerdicts(in_flight[t], ev.cutoff_ns)
                        ELSE {FALSE}) :
         LET ids == IF stale_t THEN Append(fin[Evictor].trace_ids, t)
                    ELSE fin[Evictor].trace_ids
             left == ev.scan \ {t}
             next == IF left = {} THEN AfterFinalize(ids) ELSE "ev_scan"
         IN
         /\ fin' = [fin EXCEPT ![Evictor].trace_ids = ids]
         /\ ev' = IF left = {} THEN EvIdle ELSE [ev EXCEPT !.scan = left]
         /\ pc' = [pc EXCEPT ![Evictor] = next]
  /\ UNCHANGED <<sessions, store, hub, now, ex, calls, history, ticks, sweeps>>

\* The wall clock advances.  Only maybe_broadcast_topology and
\* cleanup_stale_traces read it, so an advance is taken when a task stands
\* right before such a read: any advance of the real clock since the read
\* before that one is the same to the program.
ClockRead ==
  \/ \E e \in Exporters : pc[e] = "topo_now"
  \/ pc[Evictor] = "idle" /\ sweeps < MaxSweeps

Tick ==
  /\ ticks < MaxTicks
  /\ ClockRead
  /\ ticks' = ticks + 1
  /\ now' = now + TickMs
  /\ UNCHANGED <<sessions, store, hub, pc, ex, fin, ev, calls, history, sweeps>>

\* main.rs:52-54  an eviction period goes by on the wall clock.  Past
\* MaxIntervals periods every span of the catalogue is older than max_age and
\* a later clock value is the same to the program, so the clock rests there.
interval_tick ==
  /\ now < StartMs + MaxIntervals * IntervalMs
  /\ now' = now + IntervalMs
  /\ UNCHANGED <<sessions, store, hub, pc, ex, fin, ev, calls, history, ticks, sweeps>>

\* a step of the export call in slot e, past its start
export_step(e) ==
  \/ export_preindex_name(e)
  \/ export_preindex_start(e)
  \/ ingest_span_total(e)
  \/ ingest_span_node(e)
  \/ ingest_span_from(e)
  \/ ingest_span_latency(e)
  \/ ingest_span_edge(e)
  \/ ingest_span_insert(e)
  \/ export_broadcast(e)
  \/ topo_now(e)
  \/ topo_load(e)
  \/ topo_store(e)
  \/ topo_nodes(e)
  \/ topo_send(e)

\* a step of finalize_trace, called by task p
finalize_step(p) ==
  \/ finalize_trace_remove(p)
  \/ finalize_trace_count(p)
  \/ finalize_trace_prune_start(p)
  \/ finalize_trace_prune_name(p)
  \/ finalize_trace_send(p)

\* ---------------------------------------- handle_socket (ws.rs:61-117)
\* faulty variant: the session enters its loop without the snapshot
AfterSubscribe_NoSnapshot == "loop"

\* ws.rs:65-68  after subscribe comes the initial snapshot
AfterSubscribe == "snap_nodes"

\* faulty variant: recv takes the message off the hub, as off a work queue
AfterRecv_Pop(h) == Tail(h)

\* ws.rs:78  rx.recv() of a broadcast receiver leaves the ring as it is for
\* the other receivers
AfterRecv(h) == h

\* faulty variant: a lag notification ends the session
AfterRecvError_Break(err) == "done"

\* ws.rs:85-88  Err(Lagged(n)) is logged and the loop goes on; any other
\* error (the hub closed) breaks
AfterRecvError(err) == IF err = "Lagged" THEN "loop" ELSE "done"

\* ws.rs:69, 81, 95, 106  sender.send(frame): the client gets the frame when
\* the write succeeds
Write(sess, ok, frame) ==
  IF ok THEN [sess EXCEPT !.last = Some(frame),
                          !.first = IF @ = None THEN Some(frame) ELSE @]
  ELSE sess

\* ws.rs:61-65  a client connects: the socket is split and the session
\* subscribes to the hub, at its tail.  Sessions start in the order w1, w2.
ws_subscribe(s) ==
  /\ ws[s].pc = "off"
  /\ s = "w2" => ws["w1"].pc # "off"
  /\ ws' = [ws EXCEPT ![s].pc = AfterSubscribe, ![s].cursor = Len(hub)]
  /\ UNCHANGED <<store, hub, now, pc, ex, fin, ev, calls, history, ticks,
                 sweeps, sock>>

\* state.rs:151  get_topology_snapshot collects the nodes (ws.rs:68, 105)
ws_snapshot_nodes(s) ==
  /\ ws[s].pc \in {"snap_nodes", "req_nodes"}
  /\ ws' = [ws EXCEPT ![s].snap_nodes = {nodes[k] : k \in DOMAIN nodes},
                       ![s].pc = IF @ = "snap_nodes" THEN "snap_edges"
                                 ELSE "req_edges"]
  /\ UNCHANGED <<store, hub, now, pc, ex, fin, ev, calls, history, ticks,
                 sweeps, sock>>

\* state.rs:152-154 and ws.rs:69, 106  the edges are collected and the
\* snapshot is written to the client; a failed write is ignored
ws_snapshot_send(s) ==
  /\ ws[s].pc \in {"snap_edges", "req_edges"}
  /\ ws' = [ws EXCEPT
              ![s] = [Write(@, sock[s],
                            [type |-> "topology_snapshot",
                             nodes |-> ws[s].snap_nodes,
                             edges |-> {edges[k] : k \in DOMAIN edges}])
                        EXCEPT !.snap_nodes = {}, !.pc = "loop"]]
  /\ UNCHANGED <<store, hub, now, pc, ex, fin, ev, calls, history, ticks,
                 sweeps, sock>>

\* ws.rs:78-90  rx.recv() yields the next message of the hub, or Lagged when
\* the ring has overwritten it (the receiver then stands at the oldest
\* message left); the message is written to the client and a failed write
\* breaks the loop
ws_forward(s) ==
  LET behind == Len(hub) - ws[s].cursor
      lagged == behind > HubCapacity
      next == IF lagged THEN AfterRecvError("Lagged")
              ELSE IF sock[s] THEN "loop" ELSE "done"
  IN
  /\ ws[s].pc = "loop"
  /\ behind > 0
  /\ ws' = [ws EXCEPT
              ![s] = [Write(@, ~lagged /\ sock[s],
                            [type |-> "event", msg |-> hub[ws[s].cursor + 1]])
                        EXCEPT
                          !.cursor = IF lagged THEN Len(hub) - HubCapacity
                                     ELSE @ + 1,
                          !.lagged = IF lagged THEN @ + 1 ELSE @,
                          !.pc = next,
                          !.why = IF next # "done" THEN @
                                  ELSE IF lagged THEN "lagged"
                                  ELSE "event_write"]]
  /\ hub' = AfterRecv(hub)
  /\ UNCHANGED <<store, now, pc, ex, fin, ev, calls, history, ticks, sweeps,
                 sock>>

\* ws.rs:93-94 and state.rs:318-323  the stats interval fires (at once the
\* first time, then every 2 s); stats_snapshot loads total_traces
ws_stats_load(s) ==
  /\ ws[s].pc = "loop"
  /\ ws[s].stats < MaxStats
  /\ ws' = [ws EXCEPT ![s].total_traces = total_traces,
                       ![s].stats = @ + 1,
                       ![s].pc = "stats_send"]
  /\ UNCHANGED <<store, hub, now, pc, ex, fin, ev, calls, history, ticks,
                 sweeps, sock>>

\* state.rs:324-328 and ws.rs:95-97  nodes.len() is read and the stats
\* message is written to the client; a failed write breaks the loop
ws_stats_send(s) ==
  /\ ws[s].pc = "stats_send"
  /\ ws' = [ws EXCEPT
              ![s] = [Write(@, sock[s],
                            [type |-> "stats",
                             total_traces |-> ws[s].total_traces,
                             active_nodes |-> Cardinality(DOMAIN nodes),
                             timestamp |-> now])
                        EXCEPT
                          !.total_traces = 0,
                          !.pc = IF sock[s] THEN "loop" ELSE "done",
                          !.why = IF sock[s] THEN @ ELSE "stats_write"]]
  /\ UNCHANGED <<store, hub, now, pc, ex, fin, ev, calls, history, ticks,
                 sweeps, sock>>

\* What receiver.next() may yield: the text "topology", another text, any
\* other frame or an error (all three ignored), a Close frame, or the end of
\* the stream, which is all a broken connection yields.
Inbound(s) ==
  IF ~sock[s] THEN {"eof"}
  ELSE {"close", "eof"} \cup
       (IF ws[s].inbound < MaxInbound THEN {"topology", "hello", "ping"} ELSE {})

\* ws.rs:101-112  an inbound frame: "topology" asks for a snapshot, Close or
\* the end of the stream break the loop, anything else is ignored
ws_inbound(s) ==
  /\ ws[s].pc = "loop"
  /\ \E f \in Inbound(s) :
       ws' = [ws EXCEPT
                ![s].inbound = IF f \in {"close", "eof"} THEN @ ELSE @ + 1,
                ![s].pc = CASE f = "topology" -> "req_nodes"
                            [] f \in {"close", "eof"} -> "done"
                            [] OTHER -> "loop",
                ![s].why = IF f \in {"close", "eof"} THEN f ELSE @]
  /\ UNCHANGED <<store, hub, now, pc, ex, fin, ev, calls, history, ticks,
                 sweeps, sock>>

\* The client goes away or its connection breaks: writes fail from now on.
client_gone(s) ==
  /\ ws[s].pc \notin {"off", "done"}
  /\ sock[s]
  /\ sock' = [sock EXCEPT ![s] = FALSE]
  /\ UNCHANGED <<store, hub, now, pc, ex, fin, ev, calls, history, ticks,
                 sweeps, ws>>

\* a step of session s
ws_step(s) ==
  \/ ws_subscribe(s)
  \/ ws_snapshot_nodes(s)
  \/ ws_snapshot_send(s)
  \/ ws_forward(s)
  \/ ws_stats_load(s)
  \/ ws_stats_send(s)
  \/ ws_inbound(s)

\* The program: up to two export calls at a time (tonic serves each call on
\* the tokio thread pool), the eviction task (main.rs:51-57) and the clock.
Next ==
  \/ \E e \in Exporters : export_begin(e, MaxExports, MaxBatch, SpanIds)
  \/ \E e \in Exporters : export_step(e)
  \/ \E p \in Procs : finalize_step(p)
  \/ cleanup_begin(TRUE)
  \/ cleanup_scan
  \/ Tick

Spec == Init /\ [][Next]_vars

\* Export calls one at a time, with longer requests, beside the eviction
\* task and the clock.
NextSerial ==
  \/ export_begin("e1", MaxExports, MaxBatchSerial, SpanIds)
  \/ export_step("e1")
  \/ \E p \in {"e1", Evictor} : finalize_step(p)
  \/ cleanup_begin(TRUE)
  \/ cleanup_scan
  \/ Tick

SpecSerial == Init /\ [][NextSerial]_vars

\* The throttle alone: export calls with no span, up to two at a time, and
\* the clock.
NextTopo ==
  \/ \E e \in Exporters : export_begin(e, MaxTopoExports, 0, SpanIds)
  \/ \E e \in Exporters : topo_now(e)
  \/ \E e \in Exporters : topo_load(e)
  \/ \E e \in Exporters : topo_store(e)
  \/ \E e \in Exporters : topo_nodes(e)
  \/ \E e \in Exporters : topo_send(e)
  \/ Tick

SpecTopo == Init /\ [][NextTopo]_vars


\* The spans of a trace whose root never arrives.
OrphanIds == {"C", "D"}

\* Partial traces under the eviction task running for ever: export calls one
\* at a time whose spans are orphans, the ticker firing again and again, the
\* wall clock advancing.
NextEvict ==
  \/ export_begin("e1", MaxExports, MaxBatchSerial, OrphanIds)
  \/ export_preindex_name("e1")
  \/ export_preindex_start("e1")
  \/ ingest_span_total("e1")
  \/ ingest_span_node("e1")
  \/ ingest_span_from("e1")
  \/ ingest_span_latency("e1")
  \/ ingest_span_insert("e1")
  \/ export_broadcast("e1")
  \/ topo_now("e1")
  \/ topo_load("e1")
  \/ topo_store("e1")
  \/ topo_nodes("e1")
  \/ topo_send("e1")
  \/ finalize_step(Evictor)
  \/ cleanup_begin(FALSE)
  \/ cleanup_scan
  \/ interval_tick

\* Fairness: the tokio runtime runs every spawned task that can run (the
\* export handler and the eviction task never block), the interval fires
\* every 30 s, and the wall clock advances.
FairEvict ==
  /\ WF_vars(export_step("e1"))
  /\ WF_vars(finalize_step(Evictor))
  /\ WF_vars(cleanup_begin(FALSE))
  /\ WF_vars(cleanup_scan)
  /\ WF_vars(interval_tick)

SpecEvict == Init /\ [][NextEvict]_vars /\ FairEvict

\* A root arriving late: export calls one at a time over the spans of T2,
\* whose root E may arrive while the sweep evicts the trace.
NextRace ==
  \/ export_begin("e1", MaxExports, MaxBatchSerial, RaceIds)
  \/ export_preindex_name("e1")
  \/ export_preindex_start("e1")
  \/ ingest_span_total("e1")
  \/ ingest_span_node("e1")
  \/ ingest_span_from("e1")
  \/ ingest_span_latency("e1")
  \/ ingest_span_insert("e1")
  \/ export_broadcast("e1")
  \/ topo_now("e1")
  \/ topo_load("e1")
  \/ topo_store("e1")
  \/ topo_nodes("e1")
  \/ topo_send("e1")
  \/ \E p \in {"e1", Evictor} : finalize_step(p)
  \/ cleanup_begin(TRUE)
  \/ cleanup_scan

SpecRace == Init /\ [][NextRace]_vars

\* the one span, a root, the producer of the sessions' events exports
RootIds == {"A"}

\* The producer of the sessions' events: export calls one at a time, which
\* change the stores and hand the hub the events the sessions forward.
producer_step(max_calls) ==
  \/ export_begin("e1", max_calls, MaxBatch, RootIds)
  \/ export_preindex_name("e1")
  \/ export_preindex_start("e1")
  \/ ingest_span_total("e1")
  \/ ingest_span_node("e1")
  \/ ingest_span_from("e1")
  \/ ingest_span_latency("e1")
  \/ ingest_span_insert("e1")
  \/ export_broadcast("e1")
  \/ topo_now("e1")
  \/ topo_load("e1")
  \/ topo_store("e1")
  \/ topo_nodes("e1")
  \/ topo_send("e1")
  \/ finalize_step("e1")

\* One WebSocket session beside the producer.
NextWs ==
  \/ producer_step(MaxExports)
  \/ ws_step("w1")
  \/ client_gone("w1")

SpecWs == Init /\ [][NextWs]_vars

\* Two WebSocket sessions beside the producer.
NextWsPair ==
  \/ producer_step(MaxPairExports)
  \/ \E s \in Sessions : ws_step(s)
  \/ \E s \in Sessions : client_gone(s)

SpecWsPair == Init /\ [][NextWsPair]_vars

\* ============================================================== claims
\* the payloads ingest_span has returned to call c: those of its SpansBatch
\* message once sent, those its loop has collected before
PayloadsOf(c) ==
  UNION ({Range(hub[k].spans) :
            k \in {j \in 1..Len(hub) :
                     hub[j].type = "spans_batch" /\ hub[j].call = c}}
         \cup {Range(ex[e].payloads) : e \in {o \in Exporters : ex[o].call = c}})

AllPayloads == UNION {PayloadsOf(c) : c \in 1..Len(calls)}

TraceCompletedMsgs ==
  {hub[k] : k \in {j \in 1..Len(hub) : hub[j].type = "trace_completed"}}

\* an ingest_span call is between its first and its last step
IngestInProgress ==
  \E e \in Exporters :
    pc[e] \in {"ing_node", "ing_from", "ing_latency", "ing_edge", "ing_insert"}

\* C1, as stated: in every reachable state the in-flight map contains trace
\* id T iff a span of T has been ingested and T has not been finalized or
\* evicted.  Violated: a span of T that arrives after T was finalized puts T
\* back in flight.
C1_Original ==
  \A t \in TraceIds :
    (t \in DOMAIN in_flight) <=>
      ((\E s \in ingested : Catalogue[s].trace_id = t) /\ t \notin Range(finalized))

\* C1, amended: in every reachable state the in-flight map contains trace id
\* T iff some ingested span of T has not yet been removed by a finalization
\* or an eviction of T.
C1_InFlightIff ==
  \A t \in TraceIds :
    (t \in DOMAIN in_flight) <=>
      (\E s \in ingested \ removed : Catalogue[s].trace_id = t)

\* C1: a trace that was finalized is in flight again, with a late span
C1_Witness ==
  /\ "T1" \in Range(finalized)
  /\ "T1" \in DOMAIN in_flight
  /\ "B" \in DOMAIN in_flight["T1"]

\* C2: once finalize_trace(T) has returned having removed T's in-flight
\* entry (its TraceCompleted message is sent as its last step), neither index
\* holds a span id of the removed span set.
C2_IndexesPruned ==
  \A m \in TraceCompletedMsgs :
    \A k \in 1..Len(m.trace.spans) :
      /\ m.trace.spans[k].span_id \notin DOMAIN span_name_index
      /\ m.trace.spans[k].span_id \notin DOMAIN span_start_index

\* C2: a finalization has removed a trace of two spans and returned
C2_Witness ==
  \E m \in TraceCompletedMsgs :
    /\ Len(m.trace.spans) = 2
    /\ \A p \in Procs : pc[p] = "idle"


Abs(x) == IF x >= 0 THEN x ELSE 0 - x

Finished(c) == \A e \in Exporters : ex[e].call # c

\* the call is past the place of its SpansBatch broadcast (otlp.rs:141-146)
PastBroadcast(c) ==
  \A e \in Exporters :
    ex[e].call = c =>
      pc[e] \notin {"pre_name", "pre_start", "ing_total", "ing_node", "ing_from",
                    "ing_latency", "ing_edge", "ing_insert", "batch_send"}

BatchMsgs(c) ==
  {k \in 1..Len(hub) : hub[k].type = "spans_batch" /\ hub[k].call = c}

\* C4: an export call whose request carries at least one span hands exactly
\* one spans_batch message to the hub, with one payload per span of the
\* request in batch order; a call with no span hands none.
C4_OneSpansBatch ==
  \A c \in 1..Len(calls) :
    LET batch == calls[c].batch IN
    IF PastBroadcast(c) /\ batch # << >>
      THEN /\ Cardinality(BatchMsgs(c)) = 1
           /\ \A k \in BatchMsgs(c) :
                /\ Len(hub[k].spans) = Len(batch)
                /\ \A i \in 1..Len(batch) :
                     /\ hub[k].spans[i].span_id = batch[i].span_id
                     /\ hub[k].spans[i].trace_id = batch[i].trace_id
                     /\ hub[k].spans[i].to_node = node_id(batch[i])
      ELSE BatchMsgs(c) = {}

\* C4: a call with two spans and a call with none have both returned
C4_Witness ==
  /\ \E c \in 1..Len(calls) :
       Finished(c) /\ Len(calls[c].batch) = 2 /\ Cardinality(BatchMsgs(c)) = 1
  /\ \E c \in 1..Len(calls) : Finished(c) /\ calls[c].batch = << >>

\* the places of the steps of kind tag in the history of call c
Pos(c, tag) ==
  {k \in 1..Len(calls[c].events) : calls[c].events[k][1] = tag}

BatchIds(c) == {s.span_id : s \in Range(calls[c].batch)}

\* C5: within one export call, every span of the batch is written to both
\* indexes before the first ingest_span; the spans_batch broadcast comes
\* before the one maybe_broadcast_topology call; and that call comes, and
\* returns, before every finalize_trace and every trace_completed broadcast.
C5_CallOrder ==
  \A c \in 1..Len(calls) :
    LET evs == calls[c].events IN
    /\ \A k \in Pos(c, "ingest") : \A s \in BatchIds(c) :
         /\ \E i \in 1..(k - 1) : evs[i] = <<"index_name", s>>
         /\ \E i \in 1..(k - 1) : evs[i] = <<"index_start", s>>
    /\ \A i \in Pos(c, "spans_batch") : \A j \in Pos(c, "topology") : i < j
    /\ Cardinality(Pos(c, "topology")) <= 1
    /\ Finished(c) => Cardinality(Pos(c, "topology")) = 1
    /\ \A i \in Pos(c, "topology") \cup Pos(c, "topology_updated") :
         \A j \in Pos(c, "finalize") \cup Pos(c, "trace_completed") : i < j
    /\ \A j \in Pos(c, "finalize") : Pos(c, "topology") # {}

\* C5: a call of two spans has gone through every step and returned
C5_Witness ==
  \E c \in 1..Len(calls) :
    /\ Finished(c)
    /\ Len(calls[c].batch) = 2
    /\ Pos(c, "spans_batch") # {}
    /\ Pos(c, "topology_updated") # {}
    /\ Pos(c, "trace_completed") # {}

\* C6: for every span s of an export batch whose parent p is in the same
\* batch, before or after it, the payload of s has from_node = node id of p
\* and an edge_latency_ms, and when the node ids differ the edge from p's
\* node to s's node is recorded.  Violated: p comes first and is old; the
\* eviction sweep finalizes its trace, pruning p from the indexes, before s
\* is ingested.
C6_InBatchParent ==
  \A c \in 1..Len(calls) : \A pl \in PayloadsOf(c) :
    (IsSome(pl.parent_span_id) /\ Unwrap(pl.parent_span_id) \in BatchIds(c)) =>
      LET from == node_id(Catalogue[Unwrap(pl.parent_span_id)]) IN
      /\ pl.from_node = Some(from)
      /\ IsSome(pl.edge_latency_ms)
      /\ from # pl.to_node =>
           /\ edge_key(from, pl.to_node) \in DOMAIN edges
           /\ edges[edge_key(from, pl.to_node)].flow_count >= 1


RECURSIVE Sum(_, _)
\* the sum of f over the keys S
Sum(f, S) ==
  IF S = {} THEN 0
  ELSE LET x == CHOOSE y \in S : TRUE IN f[x] + Sum(f, S \ {x})

SumSpanCount == Sum([k \in DOMAIN nodes |-> nodes[k].span_count], DOMAIN nodes)
SumFlowCount == Sum([k \in DOMAIN edges |-> edges[k].flow_count], DOMAIN edges)

\* C7: whenever no ingest_span call is in progress, the sum over all nodes
\* of span_count equals total_spans.
C7_SpanCountSum == ~IngestInProgress => SumSpanCount = total_spans

\* C7: two spans of one node have been ingested, none is being ingested
C7_Witness ==
  /\ ~IngestInProgress
  /\ total_spans = 2
  /\ DOMAIN nodes = {"X::f"}

\* the ingest_span calls made so far for spans of node id n
IngestCalls(n) ==
  UNION {{<<c, k>> : k \in {j \in Pos(c, "ingest") :
                              node_id(Catalogue[calls[c].events[j][2]]) = n}} :
           c \in 1..Len(calls)}

NodeIds == {node_id(Catalogue[s]) : s \in DOMAIN Catalogue}

\* C8: once all the export calls, run in any interleaving, have returned,
\* each node's span_count is the number of ingest_span calls made for that
\* node id (a node id with none has no node) and total_spans is the number of
\* all ingest_span calls.
C8_NoLostIncrement ==
  (\A e \in Exporters : pc[e] = "idle") =>
    /\ total_spans = Cardinality(UNION {IngestCalls(n) : n \in NodeIds})
    /\ \A n \in NodeIds :
         IF n \in DOMAIN nodes
           THEN nodes[n].span_count = Cardinality(IngestCalls(n))
           ELSE IngestCalls(n) = {}

\* C8: two calls that ran at the same time (the second sent a message before
\* the first sent one) have returned, having counted up the same node
C8_Witness ==
  /\ \A e \in Exporters : pc[e] = "idle"
  /\ Len(calls) = 2
  /\ "X::f" \in DOMAIN nodes /\ nodes["X::f"].span_count = 2
  /\ \E i, j \in 1..Len(hub) : i < j /\ hub[i].call = 2 /\ hub[j].call = 1

\* C9: the sum over all edges of flow_count is at most total_spans, and, no
\* ingest_span being in progress, equals it exactly when every ingested span
\* had a parent that resolved in the span-name index, at ingest time, to a
\* node id other than its own (its payload's from_node).
C9_FlowCountSum ==
  /\ SumFlowCount <= total_spans
  /\ ~IngestInProgress =>
       ((SumFlowCount = total_spans) <=>
          \A pl \in AllPayloads :
            pl.from_node # None /\ pl.from_node # Some(pl.to_node))

\* C9: equality, with a span ingested
C9_Witness ==
  /\ ~IngestInProgress
  /\ total_spans >= 1
  /\ SumFlowCount = total_spans

\* C10: every edge of the edge store has source # target; no ingest_span
\* being in progress, each edge's flow_count is the number of spans that
\* resolved that parent node, and a span whose resolved parent node is its own
\* node has left no edge while its node's span_count counts it.
C10_NoSelfEdge ==
  /\ \A k \in DOMAIN edges : edges[k].source # edges[k].target
  /\ ~IngestInProgress =>
       /\ \A k \in DOMAIN edges :
            edges[k].flow_count =
              Cardinality({pl \in AllPayloads :
                             /\ pl.from_node = Some(edges[k].source)
                             /\ pl.to_node = edges[k].target})
       /\ \A pl \in AllPayloads :
            pl.from_node = Some(pl.to_node) =>
              /\ edge_key(pl.to_node, pl.to_node) \notin DOMAIN edges
              /\ pl.to_node \in DOMAIN nodes
              /\ nodes[pl.to_node].span_count =
                   Cardinality({q \in AllPayloads : q.to_node = pl.to_node})

\* C10: S2, a child of a span of its own node: one node counted twice, no edge
C10_Witness ==
  /\ ~IngestInProgress
  /\ \E pl \in AllPayloads : pl.from_node = Some(pl.to_node)
  /\ edges = EmptyMap
  /\ "X::f" \in DOMAIN nodes /\ nodes["X::f"].span_count = 2


\* a finalize_trace call has removed an entry and not yet sent its message
FinalizeInProgress ==
  \E p \in Procs : pc[p] \in {"fin_count", "fin_start", "fin_name", "fin_send"}

\* the places of the trace_completed messages in the hub
TraceCompletedAt == {k \in 1..Len(hub) : hub[k].type = "trace_completed"}

\* C11, as stated: in every reachable state total_traces equals the number
\* of finalizations that removed an in-flight entry, which equals the number
\* of trace_completed messages handed to the hub.  Violated inside
\* finalize_trace: the entry is removed, then the counter is incremented,
\* then the message is sent, in three steps other tasks can see between.
C11_Original ==
  /\ total_traces = Len(finalized)
  /\ total_traces = Cardinality(TraceCompletedAt)

\* C11, amended: in every reachable state the number of trace_completed
\* messages handed to the hub is at most total_traces, which is at most the
\* number of finalizations that removed an in-flight entry (by root arrival
\* or by eviction); whenever no finalize_trace call is between its removal
\* and its send, the three are equal.
C11_TotalTraces ==
  /\ Cardinality(TraceCompletedAt) <= total_traces
  /\ total_traces <= Len(finalized)
  /\ ~FinalizeInProgress =>
       /\ total_traces = Len(finalized)
       /\ total_traces = Cardinality(TraceCompletedAt)

\* C11: one trace finalised by its root's arrival and one by the sweep
C11_Witness ==
  /\ ~FinalizeInProgress
  /\ total_traces = 2
  /\ \E j, k \in TraceCompletedAt : hub[j].call = 0 /\ hub[k].call # 0


\* the sweep's pass decides on trace t in this step
Scans(t) == pc[Evictor] = "ev_scan" /\ t \in ev.scan /\ t \notin ev'.scan

\* C12: the pass of cleanup_stale_traces puts an in-flight trace on its list
\* of traces to finalize if and only if all of its spans started before the
\* cutoff now - max_age (or its span map is empty); a trace holding a span
\* started at or after the cutoff is not put on the list.
C12_StaleIffAll ==
  [][\A t \in TraceIds :
       Scans(t) =>
         ((fin'[Evictor].trace_ids = Append(fin[Evictor].trace_ids, t)) <=>
            /\ t \in DOMAIN in_flight
            /\ \A s \in DOMAIN in_flight[t] :
                 in_flight[t][s].start_time_unix_nano < ev.cutoff_ns)]_vars


\* span s has been evicted: a sweep's trace_completed lists it, it is in
\* neither index and in no in-flight trace, and total_traces has counted
Evicted(s) ==
  /\ \E k \in TraceCompletedAt :
       /\ hub[k].call = 0
       /\ \E j \in 1..Len(hub[k].trace.spans) : hub[k].trace.spans[j].span_id = s
  /\ s \notin DOMAIN span_name_index
  /\ s \notin DOMAIN span_start_index
  /\ \A t \in DOMAIN in_flight : s \notin DOMAIN in_flight[t]
  /\ total_traces >= 1

\* C13: under a fair eviction ticker and advancing time, every span in flight
\* in a trace that never gets a root is eventually removed from in-flight by
\* a sweep, with a trace_completed broadcast listing it, total_traces
\* incremented and its index entries removed; once the producers have
\* stopped, in-flight and both index maps end up empty and stay so.
C13_EvictionLiveness ==
  /\ \A s \in OrphanIds :
       (\E t \in DOMAIN in_flight : s \in DOMAIN in_flight[t]) ~> Evicted(s)
  /\ <>[](/\ in_flight = EmptyMap
          /\ span_name_index = EmptyMap
          /\ span_start_index = EmptyMap)

\* C13: a trace of the fresh span C alone has been evicted, which takes the
\* clock to advance past its start + max_age
C13_Witness ==
  /\ Evicted("C")
  /\ \E k \in TraceCompletedAt : Len(hub[k].trace.spans) = 1
                                  /\ hub[k].trace.spans[1].span_id = "C"
  /\ in_flight = EmptyMap
  /\ span_name_index = EmptyMap /\ span_start_index = EmptyMap


\* an export call is between its pre-index pass and the end of its ingest loop
ExportIndexing ==
  \E e \in Exporters :
    pc[e] \in {"pre_name", "pre_start", "ing_total", "ing_node", "ing_from",
               "ing_latency", "ing_edge", "ing_insert"}

\* a finalize_trace call has removed an entry and not yet pruned the indexes
Pruning == \E p \in Procs : pc[p] \in {"fin_count", "fin_start", "fin_name"}

\* the span ids held in the in-flight map
InFlightSpanIds == UNION {DOMAIN in_flight[t] : t \in DOMAIN in_flight}

\* C14, as stated: whenever no export call is between its pre-index phase
\* and the end of its ingest loop, the key sets of both indexes equal the set
\* of span ids in the in-flight map.  Violated inside finalize_trace, which
\* removes the in-flight entry first and prunes the indexes span by span.
C14_Original ==
  ~ExportIndexing =>
    /\ DOMAIN span_name_index = DOMAIN span_start_index
    /\ DOMAIN span_name_index = InFlightSpanIds

\* C14, amended: whenever no export call is between its pre-index phase and
\* the end of its ingest loop and no finalize_trace call is between its
\* removal of the in-flight entry and the end of its pruning, the key sets of
\* the span-name index and of the span-start index are equal to each other
\* and to the set of span ids held in the in-flight map.
C14_IndexesMirror ==
  (~ExportIndexing /\ ~Pruning) =>
    /\ DOMAIN span_name_index = DOMAIN span_start_index
    /\ DOMAIN span_name_index = InFlightSpanIds

\* C14: one trace has been finalised and pruned, a span of another trace is
\* in flight and indexed
C14_Witness ==
  /\ ~ExportIndexing /\ ~Pruning
  /\ total_traces >= 1
  /\ InFlightSpanIds # {}
  /\ DOMAIN span_name_index = InFlightSpanIds


\* C15: every trace_completed message lists its spans in ascending order of
\* start_time_unix_nano, has started_at equal to the least start of its
\* spans, duration_ms equal to (greatest end - least start) or zero when that
\* is negative, and root_span_name equal to the name of the first span in
\* that order that has no parent, or empty when none lacks a parent.
C15_TraceCompleted ==
  \A k \in TraceCompletedAt :
    LET tr == hub[k].trace
        n == Len(tr.spans)
        roots == {j \in 1..n : tr.spans[j].parent_span_id = None}
    IN
    /\ n >= 1
    /\ \A i, j \in 1..n :
         i < j => tr.spans[i].start_time_unix_nano <= tr.spans[j].start_time_unix_nano
    /\ \A j \in 1..n : tr.started_at <= tr.spans[j].start_time_unix_nano
    /\ \E j \in 1..n : tr.started_at = tr.spans[j].start_time_unix_nano
    /\ \E j \in 1..n :
         /\ \A i \in 1..n : tr.spans[i].end_time_unix_nano <= tr.spans[j].end_time_unix_nano
         /\ tr.duration_ms =
              IF tr.spans[j].end_time_unix_nano >= tr.started_at
                THEN tr.spans[j].end_time_unix_nano - tr.started_at ELSE 0
    /\ IF roots = {} THEN tr.root_span_name = ""
       ELSE \E j \in roots : /\ \A i \in roots : j <= i
                             /\ tr.root_span_name = tr.spans[j].name

\* C15: a trace of three spans whose root is the last by start time
C15_Witness ==
  \E k \in TraceCompletedAt :
    /\ Len(hub[k].trace.spans) = 3
    /\ hub[k].trace.spans[3].parent_span_id = None
    /\ hub[k].trace.root_span_name = "g"


\* C16: topology is cumulative: in every step, under any sequence of
\* ingests, finalizations and eviction sweeps, every node id of the node
\* store and every edge key of the edge store stays, and no span_count or
\* flow_count decreases.
C16_Cumulative ==
  [][/\ \A n \in DOMAIN nodes :
          n \in DOMAIN nodes' /\ nodes'[n].span_count >= nodes[n].span_count
     /\ \A k \in DOMAIN edges :
          k \in DOMAIN edges' /\ edges'[k].flow_count >= edges[k].flow_count]_vars

\* C16: after a finalization by root and an eviction have emptied in-flight
\* and the indexes, the nodes and the edge are still there with their counts
C16_Witness ==
  /\ total_traces = 2
  /\ in_flight = EmptyMap /\ span_name_index = EmptyMap
  /\ edge_key("Net::handle", "Net::recv") \in DOMAIN edges
  /\ "X::f" \in DOMAIN nodes /\ nodes["X::f"].span_count = 2
  /\ \A p \in Procs : pc[p] = "idle"


\* a session that has taken a step in this step
Stepped(s) == ws'[s] # ws[s]

\* C17: no step of a WebSocket session (initial snapshot, forwarding a
\* broadcast event, stats heartbeat, handling an inbound frame, termination)
\* changes nodes, edges, in-flight, either index map, total_spans,
\* total_traces or last_topo_ms, and none changes the messages of the hub.
C17_SessionsReadOnly ==
  [][(\E s \in Sessions : Stepped(s)) => (store' = store /\ hub' = hub)]_vars

\* C17: a session has sent its snapshot, forwarded an event, sent a heartbeat,
\* handled an inbound frame and ended, beside a producer that has ingested
C17_Witness ==
  /\ ws["w1"].pc = "done"
  /\ ws["w1"].first # None
  /\ ws["w1"].cursor >= 1 /\ ws["w1"].stats >= 1 /\ ws["w1"].inbound >= 1
  /\ total_spans >= 1 /\ Len(hub) >= 1


\* C18: the first frame a session's client receives is a topology_snapshot,
\* of nodes and edges of the stores (with the counts they had when read); no
\* broadcast event and no stats message comes before it, under any
\* interleaving with export calls.
C18_SnapshotFirst ==
  \A s \in Sessions :
    /\ ws[s].pc \in {"off", "snap_nodes", "snap_edges"} => ws[s].first = None
    /\ ws[s].first # None =>
         LET f == Unwrap(ws[s].first) IN
         /\ f.type = "topology_snapshot"
         /\ \A n \in f.nodes :
              n.id \in DOMAIN nodes /\ n.span_count <= nodes[n.id].span_count
         /\ \A e \in f.edges :
              /\ edge_key(e.source, e.target) \in DOMAIN edges
              /\ e.flow_count <= edges[edge_key(e.source, e.target)].flow_count

\* C18: a session that subscribed when the hub already held events got a
\* snapshot with a node first, then an event and a heartbeat
C18_Witness ==
  /\ ws["w1"].first # None /\ ws["w1"].last # None
  /\ Unwrap(ws["w1"].first).nodes # {}
  /\ Unwrap(ws["w1"].last).type = "event"
  /\ ws["w1"].stats >= 1
  /\ ws["w1"].cursor = Len(hub) /\ ws["w1"].lagged = 0 /\ Len(hub) > HubCapacity


\* session s ends in this step
Ends(s) == ws[s].pc # "done" /\ ws'[s].pc = "done"

\* C19: a session ends only on a failed write of a forwarded event or of a
\* stats heartbeat, on a Close frame or on the end of the inbound stream (the
\* hub, which AppState keeps open, never closes); a lag notification leaves
\* it in its loop; the step in which a session ends changes no other session,
\* no export call, no store and no message of the hub, and an export call
\* under way can always take its next step.
C19_Termination ==
  /\ [][\A s \in Sessions :
          /\ Ends(s) =>
               /\ \/ /\ ws[s].pc = "loop" /\ ~sock[s]
                        /\ ws[s].cursor < Len(hub)
                        /\ Len(hub) - ws[s].cursor <= HubCapacity
                        /\ ws'[s].why = "event_write"
                     \/ /\ ws[s].pc = "stats_send" /\ ~sock[s]
                        /\ ws'[s].why = "stats_write"
                     \/ /\ ws[s].pc = "loop"
                        /\ ws'[s].why \in {"close", "eof"}
                        /\ ws'[s].cursor = ws[s].cursor
               /\ \A o \in Sessions \ {s} : ws'[o] = ws[o]
               /\ UNCHANGED <<store, hub, pc, ex, fin, calls>>
          /\ ws'[s].lagged > ws[s].lagged => ws'[s].pc = "loop"]_vars
  /\ [](pc["e1"] # "idle" => ENABLED producer_step(MaxPairExports))

\* C19: one session has ended on a failed write while the other, which was
\* told it had lagged, is still in its loop forwarding events, and the
\* export call has run to its end
C19_Witness ==
  /\ ws["w1"].pc = "done" /\ ws["w1"].why = "event_write"
  /\ ws["w2"].pc = "loop" /\ ws["w2"].lagged >= 1
  /\ ws["w2"].last # None /\ Unwrap(ws["w2"].last).type = "event"
  /\ pc["e1"] = "idle" /\ total_traces = 1


\* the tasks whose finalize_trace holds a removed entry at one of the places
Holding(places) == {p \in Procs : pc[p] \in places}

\* the span ids of the trace_completed message at place k of the hub
SpanIdsAt(k) ==
  {hub[k].trace.spans[j].span_id : j \in 1..Len(hub[k].trace.spans)}

\* task p takes the first step of a finalize_trace call in this step
Removes(p) ==
  pc[p] = "fin_remove" /\ (pc'[p] # pc[p] \/ fin'[p] # fin[p])

\* C20: in_flight.remove is atomic.  Of the finalize_trace(T) calls that
\* race on one in-flight entry, from an export call and from the sweep, one
\* gets the entry: no span is in two trace_completed messages, or in one and
\* in the entry a call still holds, or in the entries two calls hold; each
\* removal is counted once in total_traces and sent once.  A finalize_trace
\* that finds no entry changes no store and sends nothing.
C20_FinalizeAtomic ==
  /\ [](/\ \A j, k \in TraceCompletedAt :
             j # k => SpanIdsAt(j) \cap SpanIdsAt(k) = {}
        /\ \A k \in TraceCompletedAt : \A p \in Procs :
             SpanIdsAt(k) \cap DOMAIN fin[p].spans = {}
        /\ \A p, q \in Procs :
             p # q => DOMAIN fin[p].spans \cap DOMAIN fin[q].spans = {}
        /\ Len(finalized) = total_traces + Cardinality(Holding({"fin_count"}))
        /\ total_traces = Cardinality(TraceCompletedAt)
             + Cardinality(Holding({"fin_start", "fin_name", "fin_send"})))
  /\ [][\A p \in Procs :
          Removes(p) =>
            IF FinTrace(p) \in DOMAIN in_flight
              THEN /\ FinTrace(p) \notin DOMAIN in_flight'
                   /\ pc'[p] = "fin_count"
                   /\ fin'[p].spans = in_flight[FinTrace(p)]
              ELSE /\ store' = store /\ hub' = hub
                   /\ pc'[p] \in {"fin_remove", "idle"}]_vars

\* C20: the export call that brought the root E and the sweep have both
\* called finalize_trace(T2) on the entry holding E; the sweep got it, the
\* export call's finalize_trace found nothing, and T2 was counted once
C20_Witness ==
  /\ \A p \in Procs : pc[p] = "idle"
  /\ \E k \in TraceCompletedAt : hub[k].call = 0 /\ "E" \in SpanIdsAt(k)
  /\ \E c \in 1..Len(calls) : Pos(c, "finalize") # {}
  /\ Len(finalized) = 1 /\ total_traces = 1
  /\ Cardinality(TraceCompletedAt) = 1


\* export call e takes a step in this step
Moves(e) == pc'[e] # pc[e]

\* the span ingest_span of call e is at has a parent that is in neither index
OrphanAt(e) ==
  /\ Cur(e).parent_span_id # None
  /\ Unwrap(Cur(e).parent_span_id) \notin DOMAIN span_name_index
  /\ Unwrap(Cur(e).parent_span_id) \notin DOMAIN span_start_index

\* the span_count of node id n, 0 with no such node
SpanCountOf(ns, n) == IF n \in DOMAIN ns THEN ns[n].span_count ELSE 0

\* C21: ingest_span of a span whose parent_span_id is set but in neither
\* index reads from_node absent and edge_latency_ms absent and returns them
\* in its payload, skips the edge upsert and changes no edge, and still adds
\* one to total_spans and to the span_count of the span's own node and puts
\* the span into in-flight under its trace id; a span whose parent is never
\* observed (D) has no other payload.
C21_OrphanParent ==
  /\ [][\A e \in Exporters :
          Moves(e) =>
            /\ pc[e] = "ing_total" => total_spans' = total_spans + 1
            /\ pc[e] = "ing_node" =>
                 SpanCountOf(nodes', node_id(Cur(e)))
                   = SpanCountOf(nodes, node_id(Cur(e))) + 1
            /\ (pc[e] = "ing_from" /\ OrphanAt(e)) => ex'[e].from_node = None
            /\ (pc[e] = "ing_latency" /\ OrphanAt(e)) =>
                 ex'[e].edge_latency_ms = None
            /\ (pc[e] = "ing_latency" /\ ex[e].from_node = None) =>
                 pc'[e] = "ing_insert"
            /\ pc[e] \in {"ing_total", "ing_node", "ing_from", "ing_latency",
                          "ing_insert"} => edges' = edges
            /\ pc[e] = "ing_insert" =>
                 /\ Cur(e).trace_id \in DOMAIN in_flight'
                 /\ Cur(e).span_id \in DOMAIN in_flight'[Cur(e).trace_id]
                 /\ \E pl \in PayloadsOf(ex[e].call)' :
                      /\ pl.span_id = Cur(e).span_id
                      /\ pl.from_node = ex[e].from_node
                      /\ pl.edge_latency_ms = ex[e].edge_latency_ms]_vars
  /\ [](\A pl \in AllPayloads :
          pl.span_id = "D" => pl.from_node = None /\ pl.edge_latency_ms = None)

\* C21: S3, the single span D whose parent is never observed has been
\* ingested: no edge, span_count 1 on its node, the span in flight
C21_Witness ==
  /\ \E pl \in AllPayloads :
       pl.span_id = "D" /\ pl.from_node = None /\ pl.edge_latency_ms = None
  /\ total_spans = 1
  /\ edges = EmptyMap
  /\ DOMAIN nodes = {"X::f"} /\ nodes["X::f"].span_count = 1
  /\ "T2" \in DOMAIN in_flight /\ DOMAIN in_flight["T2"] = {"D"}
  /\ pc["e1"] = "idle"


\* C22: in every payload returned by ingest_span, from_node is present if
\* and only if edge_latency_ms is present, over every interleaving of the
\* ingest with the pre-index pass of other export calls and with the
\* finalize_trace calls that prune the two indexes.
C22_FromIffLatency ==
  \A pl \in AllPayloads : (pl.from_node = None) <=> (pl.edge_latency_ms = None)


\* the topology_snapshot frames among the first and the latest frame of s
SnapshotFrames(s) ==
  {f \in ws[s].first : f.type = "topology_snapshot"}
    \cup {f \in ws[s].last : f.type = "topology_snapshot"}

\* the nodes and edges of the topology_updated messages handed to the hub and
\* of the topology_snapshot frames written to the sessions' clients
Topologies ==
  {[nodes |-> hub[k].nodes, edges |-> hub[k].edges] :
     k \in {j \in 1..Len(hub) : hub[j].type = "topology_updated"}}
    \cup UNION {{[nodes |-> f.nodes, edges |-> f.edges] : f \in SnapshotFrames(s)} :
                  s \in Sessions}

\* C23: in every topology_snapshot and topology_updated message, the source
\* and the target of each listed edge are ids of nodes listed in the same
\* message, also when the snapshot is taken by a session or by another
\* export call while an export call is in the middle of its ingest loop.
C23_EdgeEndpoints ==
  \A m \in Topologies :
    \A e \in m.edges :
      /\ \E n \in m.nodes : n.id = e.source
      /\ \E n \in m.nodes : n.id = e.target


\* span s is held in the in-flight map under its trace id
HeldInFlight(s) ==
  /\ Catalogue[s].trace_id \in DOMAIN in_flight
  /\ s \in DOMAIN in_flight[Catalogue[s].trace_id]

\* the places in the hub of the trace_completed messages that list span s
DeliveredAt(s) == {k \in TraceCompletedAt : s \in SpanIdsAt(k)}

\* C24: span ids being unique, in every state where no ingest_span and no
\* finalize_trace call is in progress, each span ever ingested is either held
\* in the in-flight map, under its trace id only, or listed in exactly one
\* trace_completed message, of its trace id, and never both; the map and the
\* messages hold no other span.
C24_NoSpanLostOrTwice ==
  (~IngestInProgress /\ ~FinalizeInProgress) =>
    /\ \A s \in ingested :
         /\ HeldInFlight(s) => DeliveredAt(s) = {}
         /\ ~HeldInFlight(s) => Cardinality(DeliveredAt(s)) = 1
         /\ \A k \in DeliveredAt(s) :
              /\ hub[k].trace.trace_id = Catalogue[s].trace_id
              /\ Cardinality({j \in 1..Len(hub[k].trace.spans) :
                                hub[k].trace.spans[j].span_id = s}) = 1
         /\ \A t \in DOMAIN in_flight :
              s \in DOMAIN in_flight[t] => t = Catalogue[s].trace_id
    /\ InFlightSpanIds \subseteq ingested
    /\ \A k \in TraceCompletedAt : SpanIdsAt(k) \subseteq ingested

\* C24: with no call in progress, one span of a trace has been delivered in
\* a trace_completed message and a later span of the same trace is in flight
C24_Witness ==
  /\ ~IngestInProgress /\ ~FinalizeInProgress
  /\ \E s, u \in ingested :
       /\ Catalogue[s].trace_id = Catalogue[u].trace_id
       /\ DeliveredAt(s) # {}
       /\ HeldInFlight(u)

====
